---- MODULE Spec2Model ----
(***************************************************************************)
(* Model of customer_manager.py: a command-line customer list kept as a    *)
(* JSON array in customers.json.  Strings are TLA+ strings, a customer is  *)
(* a function from the keys it has to their values, the store is a         *)
(* sequence of customers, and the backing file is described by what        *)
(* json.load makes of its bytes.                                           *)
(***************************************************************************)
EXTENDS Integers, Sequences, FiniteSets, TLC

VARIABLES file, last, assigned, pc, loc, events

vars == <<file, last, assigned, pc, loc, events>>

(* ------------------------------ bounds --------------------------------- *)

\* add is not run once it would hand out an id above MaxId
MaxId == 6
\* add is not run on a store that already holds MaxRecords customers
MaxRecords == 4

(* --------------------------- Python helpers ---------------------------- *)

\* an optional command-line value: None, or a supplied string
None == <<>>
Some(s) == <<s>>

Max(a, b) == IF a >= b THEN a ELSE b

Digit(d) == SubSeq("0123456789", d + 1, d + 1)

RECURSIVE NatStr(_)
NatStr(n) == IF n < 10 THEN Digit(n) ELSE NatStr(n \div 10) \o Digit(n % 10)

\* str(int)
str(i) == IF i < 0 THEN "-" \o NatStr(0 - i) ELSE NatStr(i)

RECURSIVE Repeat(_, _)
Repeat(ch, n) == IF n <= 0 THEN "" ELSE ch \o Repeat(ch, n - 1)

\* str.ljust
ljust(s, w) == s \o Repeat(" ", w - Len(s))

\* sep.join(parts)
RECURSIVE join(_, _)
join(sep, parts) ==
  IF parts = <<>> THEN ""
  ELSE IF Len(parts) = 1 THEN parts[1]
  ELSE parts[1] \o sep \o join(sep, Tail(parts))

\* value or ""
OrEmpty(opt) == IF opt = None \/ opt = Some("") THEN "" ELSE opt[1]

\* dict.get("id", -1)
GetIdMinus1(c) == IF "id" \in DOMAIN c THEN c["id"] ELSE 0 - 1

\* dict.get("id", 0)
GetId0(c) == IF "id" \in DOMAIN c THEN c["id"] ELSE 0

\* dict.get("id") == customer_id, where a missing id is None and equals no int
IdIs(c, customer_id) == "id" \in DOMAIN c /\ c["id"] = customer_id

\* dict[key] = value
SetKey(c, key, value) ==
  [k \in DOMAIN c \cup {key} |-> IF k = key THEN value ELSE c[k]]

(* ------------------------------ the file ------------------------------- *)

keys == <<"id", "name", "phone", "email", "notes">>
headers == <<"ID", "Name", "Phone", "Email", "Notes">>

\* json string escaping of one character
EscChar(ch) ==
  IF ch = "\n" THEN "\\n"
  ELSE IF ch = "\"" THEN "\\\""
  ELSE IF ch = "\\" THEN "\\\\"
  ELSE ch

RECURSIVE Escape(_)
Escape(s) == IF s = "" THEN "" ELSE EscChar(Head(s)) \o Escape(Tail(s))

JsonValue(c, key) ==
  IF key = "id" THEN str(c[key]) ELSE "\"" \o Escape(c[key]) \o "\""

\* the keys of a customer, in the order of the list keys
RECURSIVE KeysOf(_, _)
KeysOf(c, k) ==
  IF k > Len(keys) THEN <<>>
  ELSE IF keys[k] \in DOMAIN c THEN <<keys[k]>> \o KeysOf(c, k + 1)
  ELSE KeysOf(c, k + 1)

JsonDict(c) ==
  LET ks == KeysOf(c, 1)
      items == [i \in 1..Len(ks) |->
                  "    \"" \o ks[i] \o "\": " \o JsonValue(c, ks[i])]
  IN IF ks = <<>> THEN "{}" ELSE "{\n" \o join(",\n", items) \o "\n  }"

\* the text json.dump(customers, f, indent=2) writes
json_dump(customers) ==
  LET items == [i \in 1..Len(customers) |-> "  " \o JsonDict(customers[i])]
  IN IF customers = <<>> THEN "[]" ELSE "[\n" \o join(",\n", items) \o "\n]"

\* The backing file, by what reading it gives:
\*   absent       the path does not exist
\*   undecodable  bytes that are not UTF-8
\*   invalid      text that is not a JSON document
\*   nonlist      a JSON document that is not an array
\*   list         a JSON array of objects, in data
\* size is the length of the content.
FileOf(kind, data, size) == [kind |-> kind, data |-> data, size |-> size]

ListFile(customers) == FileOf("list", customers, Len(json_dump(customers)))

load_customers(f) ==
  IF f.kind = "absent" THEN [exc |-> "", value |-> <<>>]
  ELSE IF f.kind = "undecodable"
    THEN [exc |-> "UnicodeDecodeError", value |-> <<>>]
  ELSE IF f.kind = "invalid" THEN [exc |-> "", value |-> <<>>]
  ELSE IF f.kind # "list" THEN [exc |-> "", value |-> <<>>]
  ELSE [exc |-> "", value |-> f.data]

\* open(path, "r+"), or "w" on a file that is not there: nothing is cut off
open_keep(f) == IF f.kind = "absent" THEN FileOf("invalid", <<>>, 0) ELSE f

\* open(path, "w"): the file exists and is empty
open_w(f) == FileOf("invalid", <<>>, 0)

\* json.dump and close on a handle opened with "w": the text goes to offset
\* 0 and nothing is cut off behind it, so bytes another writer put beyond
\* its end stay and the document no longer parses
dump_close(f, customers) ==
  LET text == json_dump(customers)
  IN IF f.size <= Len(text) THEN FileOf("list", customers, Len(text))
     ELSE FileOf("invalid", <<>>, f.size)

save_customers(f, customers) == dump_close(open_w(f), customers)

(* ----------------------------- the store ------------------------------ *)

RECURSIVE MaxGetId(_)
MaxGetId(customers) ==
  IF Len(customers) = 1 THEN GetId0(customers[1])
  ELSE Max(GetId0(customers[1]), MaxGetId(Tail(customers)))

\* len(customers) + 1
next_id_len(customers) == Len(customers) + 1

\* the first customer's id + 1
next_id_first(customers) ==
  IF customers = <<>> THEN 1 ELSE GetId0(customers[1]) + 1

next_id(customers) ==
  IF customers = <<>> THEN 1 ELSE MaxGetId(customers) + 1

\* the position of the first customer with that id; 0 stands for None
RECURSIVE FindFrom(_, _, _)
FindFrom(customers, customer_id, i) ==
  IF i > Len(customers) THEN 0
  ELSE IF IdIs(customers[i], customer_id) THEN i
  ELSE FindFrom(customers, customer_id, i + 1)

\* the lookup with customer.get("id", 0) == customer_id
RECURSIVE FindFrom0(_, _, _)
FindFrom0(customers, customer_id, i) ==
  IF i > Len(customers) THEN 0
  ELSE IF GetId0(customers[i]) = customer_id THEN i
  ELSE FindFrom0(customers, customer_id, i + 1)

find_customer_default0(customers, customer_id) ==
  FindFrom0(customers, customer_id, 1)

find_customer(customers, customer_id) == FindFrom(customers, customer_id, 1)

\* customers.remove(customer): only the first match goes
RECURSIVE WithoutFirst(_, _)
WithoutFirst(customers, customer_id) ==
  IF customers = <<>> THEN <<>>
  ELSE IF IdIs(Head(customers), customer_id) THEN Tail(customers)
  ELSE <<Head(customers)>> \o WithoutFirst(Tail(customers), customer_id)

\* [c for c in customers if c.get("id") != args.id]
RECURSIVE Without(_, _)
Without(customers, customer_id) ==
  IF customers = <<>> THEN <<>>
  ELSE IF IdIs(Head(customers), customer_id)
    THEN Without(Tail(customers), customer_id)
  ELSE <<Head(customers)>> \o Without(Tail(customers), customer_id)

(* ----------------------------- the table ------------------------------- *)

\* str(row.get(key, ""))
Cell(row, key) ==
  IF key \notin DOMAIN row THEN ""
  ELSE IF key = "id" THEN str(row[key])
  ELSE row[key]

StrRow(row) == [k \in 1..Len(keys) |-> Cell(row, keys[k])]

\* the widths of the headers alone
WidenNever(widths, str_rows, i) == widths

\* the loop over str_rows that widens each column to its longest cell
RECURSIVE Widen(_, _, _)
Widen(widths, str_rows, i) ==
  IF i > Len(str_rows) THEN widths
  ELSE Widen([k \in 1..Len(widths) |-> Max(widths[k], Len(str_rows[i][k]))],
             str_rows, i + 1)

format_row(parts, widths) ==
  join(" | ", [k \in 1..Len(parts) |-> ljust(parts[k], widths[k])])

render_table(rows) ==
  IF rows = <<>> THEN "(no customers yet)"
  ELSE
    LET str_rows == [i \in 1..Len(rows) |-> StrRow(rows[i])]
        widths == Widen([k \in 1..Len(headers) |-> Len(headers[k])],
                        str_rows, 1)
        horizontal ==
          join("-+-", [k \in 1..Len(widths) |-> Repeat("-", widths[k])])
        lines == <<format_row(headers, widths), horizontal>>
                 \o [i \in 1..Len(str_rows) |-> format_row(str_rows[i], widths)]
    IN join("\n", lines)

(* ---------------------------- the commands ----------------------------- *)

NoArgs == [name |-> None, phone |-> None, email |-> None, notes |-> None]

\* What one run of a command did: the file it read, what load returned or
\* raised, the list it ended with, whether it reached save_customers, the
\* exit status and the arguments of its print calls.
Outcome(op, id, args, f, ld, customers, newid, saved, status, out) ==
  [op |-> op, id |-> id, args |-> args, before |-> f, exc |-> ld.exc,
   loaded |-> ld.value, customers |-> customers, newid |-> newid,
   saved |-> saved, status |-> status, out |-> out, earlier |-> {}]

\* an exception nobody catches: traceback on stderr, exit status 1
Uncaught(op, id, args, f, ld) ==
  Outcome(op, id, args, f, ld, ld.value, 0, FALSE, 1, <<>>)

list_customers(f) ==
  LET ld == load_customers(f)
  IN IF ld.exc # "" THEN Uncaught("list", 0, NoArgs, f, ld)
     ELSE Outcome("list", 0, NoArgs, f, ld, ld.value, 0, FALSE, 0,
                  <<render_table(ld.value)>>)

add_customer(f, args) ==
  LET ld == load_customers(f)
      customer == [id |-> next_id(ld.value),
                   name |-> args.name[1],
                   phone |-> OrEmpty(args.phone),
                   email |-> OrEmpty(args.email),
                   notes |-> OrEmpty(args.notes)]
  IN IF ld.exc # "" THEN Uncaught("add", 0, args, f, ld)
     ELSE Outcome("add", 0, args, f, ld, Append(ld.value, customer),
                  customer.id, TRUE, 0,
                  <<"Added customer:", render_table(<<customer>>)>>)

NotFound(id) == "Customer with ID " \o str(id) \o " not found."

\* the four assignments under "if args.x:", which skips an empty string
UpdatedIfTruthy(customer, args) ==
  LET c1 == IF OrEmpty(args.name) # ""
              THEN SetKey(customer, "name", args.name[1]) ELSE customer
      c2 == IF OrEmpty(args.phone) # ""
              THEN SetKey(c1, "phone", args.phone[1]) ELSE c1
      c3 == IF OrEmpty(args.email) # ""
              THEN SetKey(c2, "email", args.email[1]) ELSE c2
  IN IF OrEmpty(args.notes) # ""
       THEN SetKey(c3, "notes", args.notes[1]) ELSE c3

\* the four "if args.x is not None" assignments
Updated(customer, args) ==
  LET c1 == IF args.name # None
              THEN SetKey(customer, "name", args.name[1]) ELSE customer
      c2 == IF args.phone # None
              THEN SetKey(c1, "phone", args.phone[1]) ELSE c1
      c3 == IF args.email # None
              THEN SetKey(c2, "email", args.email[1]) ELSE c2
  IN IF args.notes # None THEN SetKey(c3, "notes", args.notes[1]) ELSE c3

edit_customer(f, id, args) ==
  LET ld == load_customers(f)
      idx == find_customer(ld.value, id)
      customer == Updated(ld.value[idx], args)
  IN IF ld.exc # "" THEN Uncaught("edit", id, args, f, ld)
     ELSE IF idx = 0
       THEN Outcome("edit", id, args, f, ld, ld.value, 0, FALSE, 1,
                    <<NotFound(id)>>)
     ELSE Outcome("edit", id, args, f, ld,
                  [ld.value EXCEPT ![idx] = customer], 0, TRUE, 0,
                  <<"Updated customer:", render_table(<<customer>>)>>)

\* delete_customer without "if customers:" before the last two prints
delete_customer_always(f, id) ==
  LET ld == load_customers(f)
      idx == find_customer(ld.value, id)
      customers == Without(ld.value, id)
  IN IF ld.exc # "" THEN Uncaught("delete", id, NoArgs, f, ld)
     ELSE IF idx = 0
       THEN Outcome("delete", id, NoArgs, f, ld, ld.value, 0, FALSE, 1,
                    <<NotFound(id)>>)
     ELSE Outcome("delete", id, NoArgs, f, ld, customers, 0, TRUE, 0,
                  <<"Deleted customer " \o str(id) \o ".",
                    "Remaining customers:", render_table(customers)>>)

delete_customer(f, id) ==
  LET ld == load_customers(f)
      idx == find_customer(ld.value, id)
      customers == Without(ld.value, id)
  IN IF ld.exc # "" THEN Uncaught("delete", id, NoArgs, f, ld)
     ELSE IF idx = 0
       THEN Outcome("delete", id, NoArgs, f, ld, ld.value, 0, FALSE, 1,
                    <<NotFound(id)>>)
     ELSE Outcome("delete", id, NoArgs, f, ld, customers, 0, TRUE, 0,
                  <<"Deleted customer " \o str(id) \o ".">>
                  \o IF customers # <<>>
                       THEN <<"Remaining customers:", render_table(customers)>>
                       ELSE <<>>)

(* ------------------------------ inputs --------------------------------- *)

Rec(id, name, phone, email, notes) ==
  [id |-> id, name |-> name, phone |-> phone, email |-> email, notes |-> notes]

AbsentFile == FileOf("absent", <<>>, 0)
UndecodableFile == FileOf("undecodable", <<>>, 2)
InvalidFile == FileOf("invalid", <<>>, 8)
NonListFile == FileOf("nonlist", <<>>, 2)

\* ids 1, 2 and 5, not in id order
Store125 ==
  <<Rec(5, "Eve", "", "eve@x.io", ""),
    Rec(1, "Ann", "555-1000", "", ""),
    Rec(2, "Bobby", "", "", "call back")>>

\* a customer without an id, then id 1
StoreNoId == <<[name |-> "Cy"], Rec(1, "Ann", "", "", "")>>

\* a negative id and a customer without an id
StoreNeg == <<Rec(-3, "Dee", "", "", ""), [name |-> "Cy", phone |-> "555"]>>

\* two customers with id 2
StoreDup == <<Rec(2, "Ann", "", "", ""), Rec(2, "Zed", "555-1000", "", "")>>

\* a newline inside a cell
StoreNewline == <<Rec(1, "Ann", "", "", "a\nb")>>

\* an id wider than its column header
StoreWide == <<Rec(100, "Al", "", "", "")>>

FreshFiles == {AbsentFile, ListFile(<<>>)}

InitFiles ==
  FreshFiles \cup {UndecodableFile, InvalidFile, NonListFile}
  \cup {ListFile(Store125), ListFile(StoreNoId), ListFile(StoreNeg),
        ListFile(StoreDup), ListFile(StoreNewline), ListFile(StoreWide)}

\* add NAME [--phone P]
AddArgs ==
  {[name |-> Some("Ann"), phone |-> Some("555-1000"), email |-> None,
    notes |-> None],
   [name |-> Some("Zed"), phone |-> None, email |-> None, notes |-> None]}

\* edit ID with nothing, with --phone "", and with all four options
EditArgs ==
  {NoArgs,
   [NoArgs EXCEPT !.phone = Some("")],
   [name |-> Some("Zed"), phone |-> Some("555-2000"),
    email |-> Some("z@x.io"), notes |-> Some("vip")]}

\* the ids given to edit and delete
IdInputs == {0, 1, 2}

(* ------------------------- one command at a time ----------------------- *)

Procs == {1, 2}

NoRun(f) ==
  Outcome("none", 0, NoArgs, f, [exc |-> "", value |-> <<>>], <<>>, 0,
          FALSE, 0, <<>>)

Idle == [p \in Procs |-> "idle"]

Init ==
  /\ file \in InitFiles
  /\ last = NoRun(file)
  /\ assigned = {}
  /\ pc = Idle
  /\ loc = [p \in Procs |-> NoRun(AbsentFile)]
  /\ events = <<>>

InitFresh == Init /\ file \in FreshFiles

\* the process runs from load to exit with no other process in between
Run(r) ==
  /\ file' = IF r.saved THEN save_customers(file, r.customers) ELSE file
  /\ last' = [r EXCEPT !.earlier = assigned]
  /\ assigned' = IF r.op = "add" /\ r.saved
                   THEN assigned \cup {r.newid} ELSE assigned
  /\ UNCHANGED <<pc, loc, events>>

List == Run(list_customers(file))

Add ==
  \E args \in AddArgs :
    LET r == add_customer(file, args)
    IN /\ Len(r.loaded) < MaxRecords
       /\ r.newid <= MaxId
       /\ Run(r)

Edit == \E id \in IdInputs, args \in EditArgs : Run(edit_customer(file, id, args))

Delete == \E id \in IdInputs : Run(delete_customer(file, id))

Next == List \/ Add \/ Edit \/ Delete

Spec == Init /\ [][Next]_vars

SpecFresh == InitFresh /\ [][Next]_vars

(* --------------------- two processes, step by step --------------------- *)

RaceFiles == {AbsentFile, ListFile(<<>>), ListFile(Store125)}

InitRace ==
  /\ file \in RaceFiles
  /\ last = NoRun(file)
  /\ assigned = {}
  /\ pc = [p \in Procs |-> "start"]
  /\ loc = [p \in Procs |-> NoRun(AbsentFile)]
  /\ events = <<>>

\* add, edit or delete up to the call of save_customers; a run that does not
\* reach it exits
Load(p, r) ==
  /\ pc[p] = "start"
  /\ loc' = [loc EXCEPT ![p] = r]
  /\ pc' = [pc EXCEPT ![p] = IF r.saved THEN "loaded" ELSE "exited"]
  /\ events' = Append(events, <<p, "load">>)
  /\ UNCHANGED <<file, last, assigned>>

PLoad(p) ==
  \/ \E args \in AddArgs : Load(p, add_customer(file, args))
  \/ \E id \in IdInputs, args \in EditArgs : Load(p, edit_customer(file, id, args))
  \/ \E id \in IdInputs : Load(p, delete_customer(file, id))

\* save_customers, first half: open(path, "w")
POpen(p) ==
  /\ pc[p] = "loaded"
  /\ file' = open_w(file)
  /\ pc' = [pc EXCEPT ![p] = "opened"]
  /\ events' = Append(events, <<p, "open">>)
  /\ UNCHANGED <<last, assigned, loc>>

\* save_customers, second half: json.dump and the close that writes it out
PWrite(p) ==
  /\ pc[p] = "opened"
  /\ file' = dump_close(file, loc[p].customers)
  /\ pc' = [pc EXCEPT ![p] = "exited"]
  /\ events' = Append(events, <<p, "write">>)
  /\ UNCHANGED <<last, assigned, loc>>

NextRace == \E p \in Procs : PLoad(p) \/ POpen(p) \/ PWrite(p)

SpecRace == InitRace /\ [][NextRace]_vars

(* ------------------------- what the claims use ------------------------- *)

\* the store a file stands for: its array, or nothing
Store(f) == IF f.kind = "list" THEN f.data ELSE <<>>

HasId(c, i) == "id" \in DOMAIN c /\ c["id"] = i

Holds(store, i) == \E k \in 1..Len(store) : HasId(store[k], i)

FirstWith(store, i) ==
  CHOOSE k \in 1..Len(store) :
    HasId(store[k], i) /\ \A j \in 1..(k - 1) : ~HasId(store[j], i)

IdOrZero(c) == IF "id" \in DOMAIN c THEN c["id"] ELSE 0

Fields == {"name", "phone", "email", "notes"}

Succeeded(op) == last.op = op /\ last.status = 0

\* C1: edit or delete with an id no record has exits with status 1 and
\* leaves the backing file exactly as it was, whatever fields were supplied
C1_NotFoundNoWrite ==
  (last.op \in {"edit", "delete"} /\ ~Holds(Store(last.before), last.id))
    => (last.status = 1 /\ ~last.saved /\ file = last.before)

C1_Witness ==
  /\ last.op = "edit"
  /\ last.args # NoArgs
  /\ Store(last.before) # <<>>
  /\ ~Holds(Store(last.before), last.id)
  /\ last.out = <<"Customer with ID 0 not found.">>

\* C2: from an empty or absent file, the ids in the store stay pairwise
\* distinct after any sequence of commands
C2_IdsDistinct ==
  LET S == Store(file)
  IN \A i, j \in 1..Len(S) :
       /\ "id" \in DOMAIN S[i]
       /\ (i # j => S[i]["id"] # S[j]["id"])

\* three customers whose ids are not contiguous
C2_Witness ==
  /\ Len(Store(file)) = 3
  /\ Holds(Store(file), 4)
  /\ ~Holds(Store(file), 2)

\* C3 as claimed: an add gives an id above the id of every earlier add
C3_NeverReassigned ==
  (last.op = "add" /\ last.saved)
    => \A j \in last.earlier : last.newid > j

\* C3: an add gives an id above the id of every earlier add whose record is
\* still in the store, and an id no record of the store holds
C3_AboveLiveIds ==
  (last.op = "add" /\ last.saved)
    => /\ \A j \in last.earlier :
            Holds(last.loaded, j) => last.newid > j
       /\ ~Holds(last.loaded, last.newid)

\* an add hands out again the id of a deleted record, beside a live one
C3_Witness ==
  /\ last.op = "add"
  /\ last.saved
  /\ last.newid \in last.earlier
  /\ last.loaded # <<>>

\* C4: add gives the new record 1 on an empty store and otherwise one more
\* than the largest existing id, a missing id counting as 0, which is above
\* every existing id
C4_NextId ==
  (last.op = "add" /\ last.saved) =>
    LET L == last.loaded
        S == Store(file)
    IN /\ L = <<>> => last.newid = 1
       /\ L # <<>> =>
            /\ \E k \in 1..Len(L) : last.newid = IdOrZero(L[k]) + 1
            /\ \A k \in 1..Len(L) : last.newid > IdOrZero(L[k])
       /\ Len(S) = Len(L) + 1
       /\ S[Len(S)]["id"] = last.newid

\* ids 1, 2 and 5 give 6
C4_Witness ==
  /\ last.op = "add"
  /\ last.before = ListFile(Store125)
  /\ last.newid = 6
  /\ Holds(Store(file), 6)

\* C5: a successful edit sets, on the first record with the id, exactly
\* the supplied fields (an empty string is a supplied value) and changes
\* nothing else: not the id, not another record, not the order or number
C5_EditFrame ==
  Succeeded("edit") =>
    LET L == last.loaded
        S == Store(file)
        k == FirstWith(L, last.id)
    IN /\ file.kind = "list"
       /\ Len(S) = Len(L)
       /\ \A i \in 1..Len(L) : i # k => S[i] = L[i]
       /\ S[k]["id"] = L[k]["id"]
       /\ \A fld \in Fields :
            IF last.args[fld] # None
              THEN fld \in DOMAIN S[k] /\ S[k][fld] = last.args[fld][1]
              ELSE IF fld \in DOMAIN L[k]
                THEN fld \in DOMAIN S[k] /\ S[k][fld] = L[k][fld]
                ELSE fld \notin DOMAIN S[k]
       /\ last.args = NoArgs => S = L

\* --phone "" alone empties the phone of a customer that had one
C5_Witness ==
  /\ Succeeded("edit")
  /\ last.args = [NoArgs EXCEPT !.phone = Some("")]
  /\ last.loaded[FirstWith(last.loaded, last.id)]["phone"] # ""
  /\ Len(last.loaded) > 1

\* C6: load returns the array of the file, or the empty list when the file
\* is absent, does not parse or is not an array, and never raises; list and
\* add then succeed
C6_LoadNeverRaises ==
  last.op # "none" =>
    /\ last.exc = ""
    /\ last.loaded = Store(last.before)
    /\ last.op \in {"list", "add"} => last.status = 0

\* the records of a store that do not hold the id, in their order
RECURSIVE Others(_, _)
Others(store, i) ==
  IF store = <<>> THEN <<>>
  ELSE (IF HasId(Head(store), i) THEN <<>> ELSE <<Head(store)>>)
       \o Others(Tail(store), i)

\* C7: after a successful delete no record of the saved store has the id,
\* looking it up finds nothing, deleting it again exits with status 1, and
\* the other records are all there, unchanged and in their order
C7_DeleteRemoves ==
  Succeeded("delete") =>
    /\ file.kind = "list"
    /\ ~Holds(Store(file), last.id)
    /\ find_customer(load_customers(file).value, last.id) = 0
    /\ delete_customer(file, last.id).status = 1
    /\ Store(file) = Others(last.loaded, last.id)

\* a delete that leaves two customers, the first with the larger id
C7_Witness ==
  /\ Succeeded("delete")
  /\ Len(Store(file)) = 2
  /\ Len(last.loaded) = 3
  /\ Store(file)[1]["id"] > Store(file)[2]["id"]

Confirmation(i) == "Deleted customer " \o str(i) \o "."

\* C8 as claimed: a successful delete prints the confirmation and then the
\* table of the remaining store, the placeholder when nothing remains
C8_AlwaysPrintsTable ==
  Succeeded("delete") =>
    /\ Len(last.out) >= 2
    /\ last.out[1] = Confirmation(last.id)
    /\ last.out[Len(last.out)] =
         (IF Store(file) = <<>> THEN "(no customers yet)"
          ELSE render_table(Store(file)))

\* C8: a successful delete prints the confirmation; when customers remain
\* it goes on with a heading and their table, and when none remains it
\* prints nothing more
C8_TableOnlyIfRemaining ==
  Succeeded("delete") =>
    IF Store(file) # <<>>
      THEN last.out = <<Confirmation(last.id), "Remaining customers:",
                        render_table(Store(file))>>
      ELSE last.out = <<Confirmation(last.id)>>

\* the only customer is deleted
C8_Witness ==
  /\ Succeeded("delete")
  /\ Len(last.loaded) = 1
  /\ Store(file) = <<>>
  /\ file.kind = "list"

\* where the newlines of a text are
Newlines(s) == {i \in 1..Len(s) : SubSeq(s, i, i) = "\n"}

RECURSIVE Ascending(_)
Ascending(S) ==
  IF S = {} THEN <<>>
  ELSE LET m == CHOOSE x \in S : \A y \in S : x <= y
       IN <<m>> \o Ascending(S \ {m})

\* the lines of a text
Lines(s) ==
  LET cuts == <<0>> \o Ascending(Newlines(s)) \o <<Len(s) + 1>>
  IN [k \in 1..(Len(cuts) - 1) |-> SubSeq(s, cuts[k] + 1, cuts[k + 1] - 1)]

HasNewline(s) == Newlines(s) # {}

SetMax(S) == CHOOSE m \in S : \A x \in S : m >= x

\* the width a column must have for the rows of a store
ColWidth(store, k) ==
  SetMax({Len(headers[k])}
         \cup {Len(Cell(store[i], keys[k])) : i \in 1..Len(store)})

Padded(s, w) == s \o Repeat(" ", w - Len(s))

\* five cells, each padded to its column, with " | " between them
RowText(store, cells) ==
  Padded(cells[1], ColWidth(store, 1)) \o " | "
  \o Padded(cells[2], ColWidth(store, 2)) \o " | "
  \o Padded(cells[3], ColWidth(store, 3)) \o " | "
  \o Padded(cells[4], ColWidth(store, 4)) \o " | "
  \o Padded(cells[5], ColWidth(store, 5))

RuleText(store) ==
  Repeat("-", ColWidth(store, 1)) \o "-+-"
  \o Repeat("-", ColWidth(store, 2)) \o "-+-"
  \o Repeat("-", ColWidth(store, 3)) \o "-+-"
  \o Repeat("-", ColWidth(store, 4)) \o "-+-"
  \o Repeat("-", ColWidth(store, 5))

TotalWidth(store) ==
  ColWidth(store, 1) + ColWidth(store, 2) + ColWidth(store, 3)
  + ColWidth(store, 4) + ColWidth(store, 5) + 12

NoNewlines(store) ==
  \A i \in 1..Len(store) : \A k \in 1..Len(keys) :
    ~HasNewline(Cell(store[i], keys[k]))

\* C9: the table of n >= 1 records without newlines has n + 2 lines: the
\* header, the rule, and one row per record in the order of the store,
\* every cell padded to the longest of its column and its header, and so
\* every line as long as the five widths plus 12
C9_TableShape ==
  (Succeeded("list") /\ last.loaded # <<>> /\ NoNewlines(last.loaded)) =>
    LET L == last.loaded
        T == Lines(last.out[1])
    IN /\ Len(last.out) = 1
       /\ Len(T) = Len(L) + 2
       /\ T[1] = RowText(L, headers)
       /\ T[2] = RuleText(L)
       /\ \A i \in 1..Len(L) :
            T[i + 2] = RowText(L, [k \in 1..5 |-> Cell(L[i], keys[k])])
       /\ \A i \in 1..Len(T) : Len(T[i]) = TotalWidth(L)

\* a table whose rows are not in id order and whose cells are wider than
\* the headers
C9_Witness ==
  /\ Succeeded("list")
  /\ last.loaded = Store125
  /\ Len(Lines(last.out[1])) = 5
  /\ ColWidth(last.loaded, 3) = 8

(* the race *)

Pos(p, step) == CHOOSE k \in 1..Len(events) : events[k] = <<p, step>>

\* both processes loaded before either opened the file for writing, and
\* both have saved and exited
Raced ==
  /\ \A p \in Procs : pc[p] = "exited" /\ loc[p].saved
  /\ \A p, q \in Procs : Pos(p, "load") < Pos(q, "open")

LastWriter == events[Len(events)][1]

\* one save was over before the other began
SavesApart ==
  \E p, q \in Procs : p # q /\ Pos(p, "write") < Pos(q, "open")

BothAdd == \A p \in Procs : loc[p].op = "add"

LastWriterWins == file.kind = "list" /\ file.data = loc[LastWriter].customers

====
